---- MODULE Spec2Model ----
(***************************************************************************)
(* Verification model of ebx (github.com/samredway/ebx): the tile map      *)
(* overlap test, the axis-separated movement system, the animation state   *)
(* machine, the scene lifecycle of the Game object, the scripted example   *)
(* scene, the component stores and entity helpers, the camera, the         *)
(* animation system with the image the render system draws, and            *)
(* SystemBase.                                                             *)
(*                                                                         *)
(* Coordinates are float64 in the source.  The model keeps them as fixed   *)
(* point integers: one unit is collisionEpsilon (0.001 pixel), so a pixel  *)
(* is Scale units and math.Floor(a/b) is a \div b.                         *)
(***************************************************************************)
EXTENDS Integers, Sequences, FiniteSets, TLC

VARIABLES
    pos,        \* PositionComponent of the entity: [X, Y] (W, H are EntW, EntH)
    state,      \* StateComponent of the entity: [IsMoving, FacingDir]
    speedDt,    \* MovementComponent.Speed * dt, in units
    mv,         \* what the last MovementSystem.Update did (observation)
    frames,     \* number of scene updates so far
    query,      \* last TileMap.OverlapsTiles call: arguments and result
    sm,         \* AnimationStateMachine: currentState, transitions, directionalStates
    anim,       \* last AnimationStateMachine.Update: argument and results
    marks,      \* history: what SetDirectional calls were made for each state
    game,       \* Game: curr, viewport
    scenes,     \* per scene: viewport stored by SetViewport, Update's next return value
    calls,      \* scene hooks called by the engine during the last NewGame / Game.Update
    scn,        \* example scene: entities with scripts, and the steps of the last frame
    stores,     \* PositionStore, StateStore, the scene's IdGen, and the last calls on them
    cam,        \* Camera: X, Y, Zoom, viewport, bounds
    asys,       \* AnimationSystem with its StateStore, library and RenderComponents
    sb          \* SystemBase: components, remove, and the calls since the last Update

moveVars  == <<pos, state, speedDt, mv, frames>>
tileVars  == <<query>>
animVars  == <<sm, anim, marks>>
gameVars  == <<game, scenes, calls>>
extVars   == <<scn, stores, cam, asys, sb>>
coreVars  == <<pos, state, speedDt, mv, frames, query, sm, anim, marks, game, scenes, calls>>
vars      == <<pos, state, speedDt, mv, frames, query, sm, anim, marks, game, scenes, calls,
               scn, stores, cam, asys, sb>>

-----------------------------------------------------------------------------
(* Units *)

\* collisionEpsilon = 0.001 is the unit of length
collisionEpsilon == 1
\* units per pixel (1 / collisionEpsilon)
Scale == 1000

-----------------------------------------------------------------------------
(* TileMap *)

\* tile size in units (16 pixel tiles, as the example tile sets)
TileW == 16 * Scale
TileH == 16 * Scale
\* map size in tiles
MapW == 4
MapH == 4

\* layers [][]int: each layer a flat row-major array of tile ids, 0 = no tile.
\* Layer 0 is a floor that covers the map, layer 1 holds the walls.
Layers ==
    << << 1, 1, 1, 1,
          1, 1, 1, 1,
          1, 1, 1, 1,
          1, 1, 1, 1 >>,
       << 0, 0, 0, 0,
          0, 0, 3, 0,
          0, 0, 0, 0,
          3, 0, 0, 0 >> >>

\* data[base+tx] with 0-based Go indices
TileAt(layer, tx, ty) == Layers[layer + 1][ty * MapW + tx + 1]

Max(a, b) == IF a > b THEN a ELSE b
Min(a, b) == IF a < b THEN a ELSE b

OverlapsTiles(x, y, w, h, layer) ==
    LET tx0 == x \div TileW
        ty0 == y \div TileH
        tx1 == ((x + w - Scale) \div TileW) + 1
        ty1 == ((y + h - Scale) \div TileH) + 1
    IN  IF tx1 <= 0 \/ ty1 <= 0 \/ tx0 >= MapW \/ ty0 >= MapH
        THEN TRUE
        ELSE \E ty \in Max(ty0, 0) .. (Min(ty1, MapH) - 1) :
             \E tx \in Max(tx0, 0) .. (Min(tx1, MapW) - 1) :
                 TileAt(layer, tx, ty) # 0

-----------------------------------------------------------------------------
(* geom.Normalize for integer facing vectors *)

ISqrt(n) == CHOOSE r \in 0 .. (2 * Scale) : r * r <= n /\ n < (r + 1) * (r + 1)

\* math.Hypot(X, Y) of a vector with squared length l2, in 1/Scale
HypotTable == [l2 \in 0 .. 2 |-> ISqrt(l2 * Scale * Scale)]

Abs(a) == IF a < 0 THEN -a ELSE a
Sgn(a) == IF a < 0 THEN -1 ELSE IF a > 0 THEN 1 ELSE 0

\* the unit vector of vec, components in 1/Scale; the zero vector stays zero
Normalize(vec) ==
    LET length == HypotTable[vec.X * vec.X + vec.Y * vec.Y]
    IN  IF length = 0
        THEN [X |-> 0, Y |-> 0]
        ELSE [X |-> Sgn(vec.X) * ((Abs(vec.X) * Scale * Scale) \div length),
              Y |-> Sgn(vec.Y) * ((Abs(vec.Y) * Scale * Scale) \div length)]

-----------------------------------------------------------------------------
(* MovementSystem *)

\* the layer the movement system collides with
collisionLayer == 1

\* PositionComponent.W, .H in units (16 x 16 pixel characters)
EntW == 16 * Scale
EntH == 16 * Scale

\* variant of resolveXAxis: every blocked move that does not go right is pushed
\* back as a move to the left, a dx of zero included
resolveXAxis_PushWhenStill(posX, posY, w, h, dx, tileW) ==
    LET newX == posX + dx
        hit  == OverlapsTiles(newX, posY, w, h, collisionLayer)
    IN  [x |-> IF hit /\ dx > 0
               THEN ((newX + w) \div tileW) * tileW - w - collisionEpsilon
               ELSE IF hit
               THEN ((newX \div tileW) + 1) * tileW + collisionEpsilon
               ELSE newX,
         hit |-> hit]

\* resolveXAxis: the resolved x and whether the move was blocked
resolveXAxis(posX, posY, w, h, dx, tileW) ==
    LET newX == posX + dx
        hit  == OverlapsTiles(newX, posY, w, h, collisionLayer)
    IN  [x |-> IF hit /\ dx > 0
               THEN ((newX + w) \div tileW) * tileW - w - collisionEpsilon
               ELSE IF hit /\ dx < 0
               THEN ((newX \div tileW) + 1) * tileW + collisionEpsilon
               ELSE newX,
         hit |-> hit]

\* resolveYAxis: the resolved y and whether the move was blocked
resolveYAxis(posX, posY, w, h, dy, tileH) ==
    LET newY == posY + dy
        hit  == OverlapsTiles(posX, newY, w, h, collisionLayer)
    IN  [y |-> IF hit /\ dy > 0
               THEN ((newY + h) \div tileH) * tileH - h - collisionEpsilon
               ELSE IF hit /\ dy < 0
               THEN ((newY \div tileH) + 1) * tileH + collisionEpsilon
               ELSE newY,
         hit |-> hit]

\* the per-axis displacement of one frame: dir * Speed * dt
Displacement(st, sdt) ==
    LET dir == Normalize(st.FacingDir)
    IN  [dx |-> Sgn(dir.X) * ((Abs(dir.X) * sdt) \div Scale),
         dy |-> Sgn(dir.Y) * ((Abs(dir.Y) * sdt) \div Scale)]

\* variant of MoveY: the Y test made at the pre-move X
MoveY_PreMoveX(p, rx, d) == resolveYAxis(p.X, p.Y, EntW, EntH, d.dy, TileH)

\* the Y step of MovementSystem.Update: resolveYAxis at the X resolved before
MoveY(p, rx, d) == resolveYAxis(rx.x, p.Y, EntW, EntH, d.dy, TileH)

\* variant of MovementUpdate: a collision on either axis cancels the whole move
MovementUpdate_FullStop(p, st, sdt) ==
    IF ~st.IsMoving
    THEN [pos |-> p,
          mv  |-> [moved |-> FALSE, oldX |-> p.X, oldY |-> p.Y, dx |-> 0, dy |-> 0,
                   hitX |-> FALSE, hitY |-> FALSE]]
    ELSE LET d  == Displacement(st, sdt)
             rx == resolveXAxis(p.X, p.Y, EntW, EntH, d.dx, TileW)
             ry == MoveY(p, rx, d)
         IN  [pos |-> IF rx.hit \/ ry.hit THEN p ELSE [X |-> rx.x, Y |-> ry.y],
              mv  |-> [moved |-> TRUE, oldX |-> p.X, oldY |-> p.Y,
                       dx |-> d.dx, dy |-> d.dy,
                       hitX |-> rx.hit, hitY |-> ry.hit]]

\* MovementSystem.Update for the entity: the new position and what happened
MovementUpdate(p, st, sdt) ==
    IF ~st.IsMoving
    THEN [pos |-> p,
          mv  |-> [moved |-> FALSE, oldX |-> p.X, oldY |-> p.Y, dx |-> 0, dy |-> 0,
                   hitX |-> FALSE, hitY |-> FALSE]]
    ELSE LET d  == Displacement(st, sdt)
             rx == resolveXAxis(p.X, p.Y, EntW, EntH, d.dx, TileW)
             ry == MoveY(p, rx, d)
         IN  [pos |-> [X |-> rx.x, Y |-> ry.y],
              mv  |-> [moved |-> TRUE, oldX |-> p.X, oldY |-> p.Y,
                       dx |-> d.dx, dy |-> d.dy,
                       hitX |-> rx.hit, hitY |-> ry.hit]]

\* UserInputSystem.Update: the keys held give a direction in {-1,0,1}^2
UserInputUpdate(st, directionX, directionY) ==
    LET isMoving == (directionX # 0 \/ directionY # 0)
    IN  [IsMoving  |-> isMoving,
         FacingDir |-> IF isMoving THEN [X |-> directionX, Y |-> directionY]
                       ELSE st.FacingDir]

-----------------------------------------------------------------------------
(* AnimationStateMachine *)

\* the animation states the scenes declare
AnimStates == {"idle", "walk"}

\* the transition predicates over the StateComponent used by the scenes
Conds == {"IsMoving", "Always"}

\* condition(state) of a transition
Holds(condition, st) ==
    IF condition = "IsMoving" THEN st.IsMoving
    ELSE IF condition = "NotMoving" THEN ~st.IsMoving
    ELSE TRUE

NewAnimationStateMachine(initialState) ==
    [currentState      |-> initialState,
     transitions       |-> [s \in AnimStates |-> <<>>],
     directionalStates |-> <<>>]

\* SetDirectional: directionalStates[state] = directional
SetDirectionalOp(m, s, directional) ==
    [m EXCEPT !.directionalStates = (s :> directional) @@ @]

\* AddTransition: append to the list of the from state
AddTransitionOp(m, from, to, condition, priority) ==
    [m EXCEPT !.transitions[from] =
        Append(@, [to |-> to, condition |-> condition, priority |-> priority])]

\* the loop of Update over transitions[i..]: best is 0 (nil) or the index of
\* the best transition so far
RECURSIVE ScanTransitions(_, _, _, _)
ScanTransitions(ts, i, best, st) ==
    IF i > Len(ts) THEN best
    ELSE IF Holds(ts[i].condition, st)
            /\ (best = 0 \/ ts[i].priority > ts[best].priority)
         THEN ScanTransitions(ts, i + 1, i, st)
         ELSE ScanTransitions(ts, i + 1, best, st)

\* variant of the loop: >= in place of >, so the last of equal priorities wins
RECURSIVE ScanTransitions_LastWins(_, _, _, _)
ScanTransitions_LastWins(ts, i, best, st) ==
    IF i > Len(ts) THEN best
    ELSE IF Holds(ts[i].condition, st)
            /\ (best = 0 \/ ts[i].priority >= ts[best].priority)
         THEN ScanTransitions_LastWins(ts, i + 1, i, st)
         ELSE ScanTransitions_LastWins(ts, i + 1, best, st)

BestTransition_LastWins(m, st) ==
    ScanTransitions_LastWins(m.transitions[m.currentState], 1, 0, st)

\* the index of the transition Update takes from the current state, 0 if none
BestTransition(m, st) == ScanTransitions(m.transitions[m.currentState], 1, 0, st)

\* variant of DirectionToString: the Y axis tested before the X axis
DirectionToString_YFirst(dir) ==
    IF dir.Y < 0 THEN "up"
    ELSE IF dir.Y > 0 THEN "down"
    ELSE IF dir.X < 0 THEN "left"
    ELSE IF dir.X > 0 THEN "right"
    ELSE "down"

DirectionToString(dir) ==
    IF dir.X < 0 THEN "left"
    ELSE IF dir.X > 0 THEN "right"
    ELSE IF dir.Y < 0 THEN "up"
    ELSE IF dir.Y > 0 THEN "down"
    ELSE "down"

\* directionalStates[state], true when the state has no entry
IsDirectional(m, s) ==
    IF s \in DOMAIN m.directionalStates THEN m.directionalStates[s] ELSE TRUE

\* variant of buildAnimationName: any entry of directionalStates, true or
\* false, drops the suffix
buildAnimationName_AnyMarkIsBare(m, s, dir) ==
    IF s \in DOMAIN m.directionalStates THEN <<s>>
    ELSE <<s, "_", DirectionToString(dir)>>

\* the name is kept as its pieces: <<state>> is "state" and
\* <<state, "_", dir>> is "state_dir"
buildAnimationName(m, s, dir) ==
    IF ~IsDirectional(m, s) THEN <<s>>
    ELSE <<s, "_", DirectionToString(dir)>>

\* AnimationStateMachine.Update: the machine after the call and the results
SmUpdate(m, st) ==
    LET best == BestTransition(m, st)
        next == IF best # 0 THEN m.transitions[m.currentState][best].to
                ELSE m.currentState
    IN  [sm    |-> [m EXCEPT !.currentState = next],
         state |-> next,
         name  |-> buildAnimationName(m, next, st.FacingDir)]

-----------------------------------------------------------------------------
(* Game and scenes *)

\* the scenes of the program, and nil
Scenes == {"menu", "level", "over"}
Nil == "nil"

\* geom.Size{}: the viewport of a scene nobody called SetViewport on
ZeroSize == [W |-> 0, H |-> 0]

\* a scene object before the engine touches it
NewScene == [Viewport |-> ZeroSize, entered |-> 0, camera |-> ZeroSize]

\* BaseScene.SetViewport
SetViewport(sc, view) == [sc EXCEPT !.Viewport = view]

\* OnEnter of a scene built on topdown.BaseScene: Init makes the camera from
\* the Viewport the scene holds at that moment
OnEnter(sc) == [sc EXCEPT !.entered = 1, !.camera = sc.Viewport]

\* one hook call as the engine makes it: the hook, its receiver, Game.curr at
\* the time of the call and the scene returned (nil for all hooks but Update)
Call(hook, scene, curr, ret) == [hook |-> hook, scene |-> scene, curr |-> curr, ret |-> ret]

\* NewGame(scene, screenW, screenH)
NewGame(scs, scene, viewport) ==
    LET s1 == [scs EXCEPT ![scene] = SetViewport(@, viewport)]
        s2 == [s1 EXCEPT ![scene] = OnEnter(@)]
    IN  [game   |-> [curr |-> scene, viewport |-> viewport],
         scenes |-> s2,
         calls  |-> << Call("SetViewport", scene, Nil, Nil), Call("OnEnter", scene, Nil, Nil) >>]

\* variant of GameUpdate: the new scene is entered before the old one is left
GameUpdate_EnterBeforeExit(g, scs, ret) ==
    IF ret # Nil
    THEN [game   |-> [g EXCEPT !.curr = ret],
          scenes |-> [scs EXCEPT ![ret] = OnEnter(@)],
          calls  |-> << Call("Update", g.curr, g.curr, ret),
                        Call("OnEnter", ret, g.curr, Nil),
                        Call("OnExit", g.curr, g.curr, Nil) >>]
    ELSE [game   |-> g,
          scenes |-> scs,
          calls  |-> << Call("Update", g.curr, g.curr, Nil) >>]

\* Game.Update when g.curr.Update(dt) returns ret (a scene or nil)
GameUpdate(g, scs, ret) ==
    IF ret # Nil
    THEN [game   |-> [g EXCEPT !.curr = ret],
          scenes |-> [scs EXCEPT ![ret] = OnEnter(@)],
          calls  |-> << Call("Update", g.curr, g.curr, ret),
                        Call("OnExit", g.curr, g.curr, Nil),
                        Call("OnEnter", ret, ret, Nil) >>]
    ELSE [game   |-> g,
          scenes |-> scs,
          calls  |-> << Call("Update", g.curr, g.curr, Nil) >>]

-----------------------------------------------------------------------------
(* Example scene with scripted entities *)

EntityIds == {1, 2}

\* pScript.animRate, 0.15 s, in frames of 1/60 s
animRate == 9

\* frames of one animation of the player: anims[0:4]
NumAnimFrames == 4

ZeroDir == [X |-> 0, Y |-> 0]

\* the direction word of pScript.updateAnimations: Y is looked at before X
pScriptDirString(m) ==
    IF m.FacingDir.Y < 0 THEN "up"
    ELSE IF m.FacingDir.Y > 0 THEN "down"
    ELSE IF m.FacingDir.X < 0 THEN "left"
    ELSE IF m.FacingDir.X > 0 THEN "right"
    ELSE "down"

\* pScript.updateAnimations(m, dt) with dt one frame
updateAnimations(ps, m) ==
    LET nextAnim == << IF m.IsMoving THEN "walk" ELSE "idle", "_", pScriptDirString(m) >>
        a == IF nextAnim # ps.curAnim
             THEN [ps EXCEPT !.curFrame = 0, !.curAnim = nextAnim]
             ELSE IF ps.time + 1 >= animRate
                  THEN [ps EXCEPT !.time = 0, !.curFrame = @ + 1]
                  ELSE [ps EXCEPT !.time = @ + 1]
    IN  [a EXCEPT !.curFrame = @ % NumAnimFrames]

\* pScript.Update(e, dt); direction is what the arrow keys give
pScriptUpdate(e, direction) ==
    LET m  == [e.Movement EXCEPT !.DesiredDir = direction]
        ps == updateAnimations(e.Script, m)
    IN  [e EXCEPT !.Movement = m, !.Script = ps, !.Img = <<ps.curAnim, ps.curFrame>>]

\* NewPlayer(assets) placed at p, with the flag RemoveDead looks at
NewEntity(p, dead) ==
    [ Position |-> p,
      Movement |-> [SpeedDt |-> 3333, DesiredDir |-> ZeroDir, IsMoving |-> FALSE,
                    FacingDir |-> ZeroDir],
      Img      |-> << <<"idle", "_", "left">>, 0 >>,
      Script   |-> [time |-> 0, curAnim |-> <<"idle", "_", "down">>, curFrame |-> 0],
      Dead     |-> dead ]

\* the ids of S in ascending order
RECURSIVE IdSeq(_)
IdSeq(S) ==
    IF S = {} THEN <<>>
    ELSE LET m == CHOOSE x \in S : \A y \in S : x <= y
         IN  <<m>> \o IdSeq(S \ {m})

\* EntityManager.Update(dt): the script of every entity runs
EntityManagerUpdate(s, directions) ==
    LET ids == IdSeq(DOMAIN s.entities)
    IN  [s EXCEPT !.entities = [id \in DOMAIN s.entities |->
                                    pScriptUpdate(s.entities[id], directions[id])],
                  !.log = @ \o [i \in 1 .. Len(ids) |->
                                    [op |-> "script", id |-> ids[i], dir |-> directions[ids[i]]]]]

\* MovementSystem.Update(dt) for one entity: the desired direction is the
\* direction of the displacement, which is resolved against the tiles
MoveEntity(e) ==
    LET d      == e.Movement.DesiredDir
        moving == d # ZeroDir
        st     == [IsMoving |-> moving,
                   FacingDir |-> IF moving THEN d ELSE e.Movement.FacingDir]
        r      == MovementUpdate(e.Position, st, e.Movement.SpeedDt)
    IN  [e EXCEPT !.Position = r.pos,
                  !.Movement.IsMoving = st.IsMoving,
                  !.Movement.FacingDir = st.FacingDir]

\* MovementSystem.Update(dt) over the entities of the manager
MoveSysUpdate(s) ==
    LET ids == IdSeq(DOMAIN s.entities)
    IN  [s EXCEPT !.entities = [id \in DOMAIN s.entities |-> MoveEntity(s.entities[id])],
                  !.log = @ \o [i \in 1 .. Len(ids) |->
                                    [op |-> "move", id |-> ids[i],
                                     dir |-> s.entities[ids[i]].Movement.DesiredDir]]]

\* EntityManager.RemoveDead()
RemoveDead(s) ==
    LET alive == { id \in DOMAIN s.entities : ~s.entities[id].Dead }
    IN  [s EXCEPT !.entities = [id \in alive |-> s.entities[id]]]

\* the frame with the movement system run ahead of the scripts
ExampleSceneUpdate_MoveFirst(s, directions) ==
    RemoveDead(EntityManagerUpdate(MoveSysUpdate([s EXCEPT !.log = <<>>]), directions))

\* ExampleScene.Update(dt); log keeps the steps of this frame
ExampleSceneUpdate(s, directions) ==
    RemoveDead(MoveSysUpdate(EntityManagerUpdate([s EXCEPT !.log = <<>>], directions)))

-----------------------------------------------------------------------------
(* PositionStore, StateStore and IdGen *)

\* a component is a pointer: EntityId is the field the stores read, tag tells
\* one allocation from another
Component(id, tag) == [EntityId |-> id, tag |-> tag]

NewPositionStore == <<>>
NewStateStore == <<>>

\* an Attach that keeps what is already stored for the id
RECURSIVE PositionStoreAttach_KeepFirst(_, _)
PositionStoreAttach_KeepFirst(positions, comps) ==
    IF comps = <<>> THEN positions
    ELSE PositionStoreAttach_KeepFirst(positions @@ (Head(comps).EntityId :> Head(comps)),
                                       Tail(comps))

\* ps.Attach(comps...): a later component of the same id replaces the earlier
RECURSIVE PositionStoreAttach(_, _)
PositionStoreAttach(positions, comps) ==
    IF comps = <<>> THEN positions
    ELSE PositionStoreAttach((Head(comps).EntityId :> Head(comps)) @@ positions, Tail(comps))

\* ps.Detach(comps...): delete by the EntityId of each component
PositionStoreDetach(positions, comps) ==
    LET gone == { comps[i].EntityId : i \in DOMAIN comps }
    IN  [id \in (DOMAIN positions) \ gone |-> positions[id]]

\* ps.GetPosition(id): the stored pointer, or a panic
GetPosition(positions, id) ==
    IF id \notin DOMAIN positions THEN [panic |-> TRUE, comp |-> Nil]
    ELSE [panic |-> FALSE, comp |-> positions[id]]

RECURSIVE StateStoreAttach(_, _)
StateStoreAttach(states, comps) ==
    IF comps = <<>> THEN states
    ELSE StateStoreAttach((Head(comps).EntityId :> Head(comps)) @@ states, Tail(comps))

StateStoreDetach(states, comps) ==
    LET gone == { comps[i].EntityId : i \in DOMAIN comps }
    IN  [id \in (DOMAIN states) \ gone |-> states[id]]

\* ss.GetState(id)
GetState(states, id) ==
    IF id \notin DOMAIN states THEN [panic |-> TRUE, comp |-> Nil]
    ELSE [panic |-> FALSE, comp |-> states[id]]

\* no Get call was made on a store since it last changed
NoGet == [op |-> "none"]

\* ig.Next(): the generator after the call, and the id returned
IdGenNext(ig) == [ig |-> [last |-> ig.last + 1], id |-> ig.last + 1]

\* the stores and systems of a scene, as the entity helpers see them; hist
\* keeps the Attach and Detach calls made on the two stores, n counts the
\* components allocated so far
NewWorld ==
    [ positions |-> NewPositionStore, states |-> NewStateStore,
      render |-> <<>>, anims |-> <<>>, moves |-> <<>>, inputs |-> <<>>,
      camTarget |-> 0, idGen |-> [last |-> 0],
      hist |-> <<>>, n |-> 0, created |-> <<>>, got |-> [positions |-> NoGet, states |-> NoGet] ]

HistEntry(store, op, comp) == [store |-> store, op |-> op, id |-> comp.EntityId, comp |-> comp]

\* pos.Attach / pos.Detach / state.Attach / state.Detach on the world
WorldAttachPosition(w, comps) ==
    [w EXCEPT !.positions = PositionStoreAttach(@, comps),
              !.hist = @ \o [i \in DOMAIN comps |-> HistEntry("positions", "Attach", comps[i])]]
WorldDetachPosition(w, comps) ==
    [w EXCEPT !.positions = PositionStoreDetach(@, comps),
              !.hist = @ \o [i \in DOMAIN comps |-> HistEntry("positions", "Detach", comps[i])]]
WorldAttachState(w, comps) ==
    [w EXCEPT !.states = StateStoreAttach(@, comps),
              !.hist = @ \o [i \in DOMAIN comps |-> HistEntry("states", "Attach", comps[i])]]
WorldDetachState(w, comps) ==
    [w EXCEPT !.states = StateStoreDetach(@, comps),
              !.hist = @ \o [i \in DOMAIN comps |-> HistEntry("states", "Detach", comps[i])]]

\* NewPlayer(idGen, render, pos, state, anim, mov, inp): idGen is a parameter
\* of type engine.IdGen, a copy of the caller's generator; Next advances the
\* copy, so w.idGen is what it was
NewPlayer(w, idGen) ==
    LET pId    == IdGenNext(idGen).id
        pRc    == Component(pId, w.n + 1)
        pPos   == Component(pId, w.n + 2)
        pState == Component(pId, w.n + 3)
        pAnim  == Component(pId, w.n + 4)
        pMov   == Component(pId, w.n + 5)
        w1     == WorldAttachState(WorldAttachPosition(w, <<pPos>>), <<pState>>)
    IN  [w1 EXCEPT !.render = Append(@, pRc),
                   !.camTarget = pId,
                   !.anims = (pId :> pAnim) @@ @,
                   !.moves = Append(@, pMov),
                   !.inputs = Append(@, pState),
                   !.n = @ + 5,
                   !.created = Append(@, pId)]

\* CreateMovingCharacter(idGen, ..., animSys, moveSys, renderSys, posSys), which
\* returns the id; idGen is passed by value here too
CreateMovingCharacter(w, idGen) ==
    LET id    == IdGenNext(idGen).id
        pPos  == Component(id, w.n + 1)
        pMov  == Component(id, w.n + 2)
        pAnim == Component(id, w.n + 3)
        pRc   == Component(id, w.n + 4)
        w1    == WorldAttachPosition(w, <<pPos>>)
    IN  [w1 EXCEPT !.moves = Append(@, pMov),
                   !.anims = (id :> pAnim) @@ @,
                   !.render = Append(@, pRc),
                   !.n = @ + 4,
                   !.created = Append(@, id)]

-----------------------------------------------------------------------------
(* Camera *)

\* Zoom is kept in halves: 1 is 0.5, 2 is 1.0, 4 is 2.0.  The viewport and the
\* bounds are in pixels, X and Y in units.

\* float64(c.viewport.W) / c.Zoom, in units
ViewW(c) == (c.viewport.W * Scale * 2) \div c.Zoom
ViewH(c) == (c.viewport.H * Scale * 2) \div c.Zoom

\* NewCamera(viewport, bounds)
NewCamera(viewport, bounds) ==
    [X |-> 0, Y |-> 0, viewport |-> viewport, bounds |-> bounds, Zoom |-> 2]

\* a clamp whose far limit forgets the zoom
clamp_NoZoom(c) ==
    LET maxX == c.bounds.Max.X * Scale - c.viewport.W * Scale
        maxY == c.bounds.Max.Y * Scale - c.viewport.H * Scale
        x1 == IF c.X < c.bounds.Min.X * Scale THEN c.bounds.Min.X * Scale ELSE c.X
        x2 == IF x1 > maxX THEN maxX ELSE x1
        y1 == IF c.Y < c.bounds.Min.Y * Scale THEN c.bounds.Min.Y * Scale ELSE c.Y
        y2 == IF y1 > maxY THEN maxY ELSE y1
    IN  [c EXCEPT !.X = x2, !.Y = y2]

\* c.clamp(): the near limit is applied first, the far limit after it
clamp(c) ==
    LET maxX == c.bounds.Max.X * Scale - ViewW(c)
        maxY == c.bounds.Max.Y * Scale - ViewH(c)
        x1 == IF c.X < c.bounds.Min.X * Scale THEN c.bounds.Min.X * Scale ELSE c.X
        x2 == IF x1 > maxX THEN maxX ELSE x1
        y1 == IF c.Y < c.bounds.Min.Y * Scale THEN c.bounds.Min.Y * Scale ELSE c.Y
        y2 == IF y1 > maxY THEN maxY ELSE y1
    IN  [c EXCEPT !.X = x2, !.Y = y2]

\* c.CentreOn(pos)
CentreOn(c, p) ==
    clamp([c EXCEPT !.X = p.X - ViewW(c) \div 2, !.Y = p.Y - ViewH(c) \div 2])

-----------------------------------------------------------------------------
(* AnimationSystem and the image RenderSystem draws *)

\* AnimationDef.FrameTime of the example animations, 0.15 s, in milliseconds
FrameTime == 150

\* a nil *AnimationDef and a nil *ebiten.Image
NilDef == [nil |-> TRUE]
NilImage == <<"nil">>

\* al.GetAnimation(name): the definition, or nil
GetAnimation(library, name) ==
    IF name \in DOMAIN library THEN library[name] ELSE NilDef

\* NewAnimationSystem(stateStore, library, stateMachine)
NewAnimationSystem(stateStore, library, stateMachine) ==
    [components |-> <<>>, states |-> stateStore, library |-> library,
     stateMachine |-> stateMachine]

\* the body of the loop of AnimationSystem.Update for the component of id; as
\* is the system: components, states (the StateStore), library, stateMachine
UpdateComponent(as, id, dt) ==
    LET an       == as.components[id]
        r        == SmUpdate(as.stateMachine, GetState(as.states, id).comp)
        desired  == r.name
        switched == desired # an.CurrentAnim
        newDef   == GetAnimation(as.library, desired)
        a1 == IF ~switched THEN an
              ELSE IF newDef = NilDef
                   THEN [an EXCEPT !.CurrentAnim = desired, !.Playing = FALSE]
                   ELSE [an EXCEPT !.CurrentAnim = desired,
                                   !.CurrentFrame = newDef.FirstFrame,
                                   !.ElapsedTime = 0,
                                   !.Playing = TRUE]
        animDef  == GetAnimation(as.library, a1.CurrentAnim)
        t        == a1.ElapsedTime + dt
        a2 == IF animDef = NilDef \/ ~a1.Playing THEN a1
              ELSE IF t < animDef.FrameTime THEN [a1 EXCEPT !.ElapsedTime = t]
              ELSE IF a1.CurrentFrame + 1 <= animDef.LastFrame
                   THEN [a1 EXCEPT !.ElapsedTime = t - animDef.FrameTime,
                                   !.CurrentFrame = @ + 1]
              ELSE IF animDef.Loop
                   THEN [a1 EXCEPT !.ElapsedTime = t - animDef.FrameTime,
                                   !.CurrentFrame = animDef.FirstFrame]
              ELSE [a1 EXCEPT !.ElapsedTime = t - animDef.FrameTime,
                              !.CurrentFrame = animDef.LastFrame,
                              !.Playing = FALSE]
    IN  [as EXCEPT !.stateMachine = r.sm, !.components[id] = a2]

\* AnimationSystem.Update(dt): the components are visited in the order the map
\* iteration gives, order being that sequence of ids
RECURSIVE AnimationSystemUpdate(_, _, _)
AnimationSystemUpdate(as, order, dt) ==
    IF order = <<>> THEN as
    ELSE AnimationSystemUpdate(UpdateComponent(as, Head(order), dt), Tail(order), dt)

\* an image of a sprite sheet, and the static image of a RenderComponent
SheetImage(animDef, frame) == <<"sheet", animDef.SpriteSheet, frame>>
StaticImage(id) == <<"static", id>>

\* a provider that does not look at Playing
GetCurrentImage_IgnorePlaying(as, id) ==
    IF id \notin DOMAIN as.components THEN NilImage
    ELSE IF GetAnimation(as.library, as.components[id].CurrentAnim) = NilDef THEN NilImage
    ELSE SheetImage(GetAnimation(as.library, as.components[id].CurrentAnim),
                    as.components[id].CurrentFrame)

\* as.GetCurrentImage(id): nil, or animDef.SpriteSheet[anim.CurrentFrame]
GetCurrentImage(as, id) ==
    IF id \notin DOMAIN as.components \/ ~as.components[id].Playing THEN NilImage
    ELSE IF GetAnimation(as.library, as.components[id].CurrentAnim) = NilDef THEN NilImage
    ELSE SheetImage(GetAnimation(as.library, as.components[id].CurrentAnim),
                    as.components[id].CurrentFrame)

\* rs.getEntityImage(r): the animated image first, the static image after it,
\* a panic when there is neither
getEntityImage(as, hasProvider, r) ==
    LET img == IF hasProvider THEN GetCurrentImage(as, r.EntityId) ELSE NilImage
    IN  IF img # NilImage THEN img
        ELSE IF r.Img = NilImage THEN <<"panic">>
        ELSE r.Img

-----------------------------------------------------------------------------
(* SystemBase *)

\* NewSystemBase(): no components, nothing to remove
NewSystemBase == [components |-> <<>>, remove |-> {}]

\* sb.Attach(comp...)
SystemBaseAttach(s, comps) == [s EXCEPT !.components = @ \o comps]

\* sb.Detach(ids...)
SystemBaseDetach(s, ids) == [s EXCEPT !.remove = @ \cup { ids[i] : i \in DOMAIN ids }]

\* the loop of Update over comps: a component whose id is on the remove list
\* is dropped and its id taken off the list, the others are appended to active
RECURSIVE Compact(_, _, _)
Compact(comps, remove, active) ==
    IF comps = <<>> THEN active
    ELSE IF Head(comps).EntityId \in remove
         THEN Compact(Tail(comps), remove \ {Head(comps).EntityId}, active)
         ELSE Compact(Tail(comps), remove, Append(active, Head(comps)))

\* an Update that leaves on the remove list the ids that matched no component
RECURSIVE LeftOver(_, _)
LeftOver(comps, remove) ==
    IF comps = <<>> THEN remove
    ELSE LeftOver(Tail(comps), remove \ {Head(comps).EntityId})
SystemBaseUpdate_NoClear(s) ==
    [components |-> Compact(s.components, s.remove, <<>>),
     remove |-> LeftOver(s.components, s.remove)]

\* sb.Update(dt): compact, then remove.Clear()
SystemBaseUpdate(s) ==
    [components |-> Compact(s.components, s.remove, <<>>), remove |-> {}]

-----------------------------------------------------------------------------
(* Vocabulary of the claims about overlap *)

\* the rectangle (x, y, w, h) and tile (tx, ty) share a region of positive area
RectMeetsTile(x, y, w, h, tx, ty) ==
    /\ x < (tx + 1) * TileW /\ x + w > tx * TileW
    /\ y < (ty + 1) * TileH /\ y + h > ty * TileH

\* the rectangle intersects a non-zero tile of the layer
TouchesSolid(x, y, w, h, layer) ==
    \E tx \in 0 .. (MapW - 1), ty \in 0 .. (MapH - 1) :
        TileAt(layer, tx, ty) # 0 /\ RectMeetsTile(x, y, w, h, tx, ty)

\* the rectangle lies inside the map
InsideMap(x, y, w, h) ==
    /\ 0 <= x /\ x + w <= MapW * TileW
    /\ 0 <= y /\ y + h <= MapH * TileH

\* some part of the rectangle lies outside the map
PartlyOutside(x, y, w, h) == ~InsideMap(x, y, w, h)

-----------------------------------------------------------------------------
(* Values of the variables a specification does not use *)

NoMove == [moved |-> FALSE, oldX |-> 0, oldY |-> 0, dx |-> 0, dy |-> 0,
           hitX |-> FALSE, hitY |-> FALSE]
NoQuery == [called |-> FALSE, x |-> 0, y |-> 0, w |-> 0, h |-> 0, layer |-> 0,
            result |-> FALSE]
NoAnim  == [called |-> FALSE]
NoGame  == [curr |-> Nil, viewport |-> ZeroSize]

MoveIdle ==
    /\ pos = [X |-> 0, Y |-> 0]
    /\ state = [IsMoving |-> FALSE, FacingDir |-> [X |-> 0, Y |-> 1]]
    /\ speedDt = 0
    /\ mv = NoMove
    /\ frames = 0
TilesIdle == query = NoQuery
AnimIdle ==
    /\ sm = NewAnimationStateMachine("idle")
    /\ anim = NoAnim
    /\ marks = [s \in AnimStates |-> "none"]
GameIdle ==
    /\ game = NoGame
    /\ scenes = [s \in Scenes |-> NewScene]
    /\ calls = <<>>

NoScene  == [entities |-> <<>>, log |-> <<>>, frames |-> 0]
NoStores == NewWorld
NoCam    == [c |-> NewCamera(ZeroSize, [Min |-> [X |-> 0, Y |-> 0], Max |-> [X |-> 0, Y |-> 0]]),
             centred |-> FALSE, target |-> [X |-> 0, Y |-> 0]]
NoAsys   == [a |-> NewAnimationSystem(NewStateStore, <<>>, NewAnimationStateMachine("idle")),
             b |-> NewAnimationSystem(NewStateStore, <<>>, NewAnimationStateMachine("idle")),
             render |-> <<>>, hasProvider |-> FALSE, drawn |-> <<>>, frames |-> 0]
NoSb     == [s |-> NewSystemBase, n |-> 0, late |-> {}, op |-> "none",
             prev |-> [s |-> NewSystemBase, late |-> {}]]

SceneIdle  == scn = NoScene
StoresIdle == stores = NoStores
CamIdle    == cam = NoCam
AsysIdle   == asys = NoAsys
SbIdle     == sb = NoSb
ExtIdle    == SceneIdle /\ StoresIdle /\ CamIdle /\ AsysIdle /\ SbIdle
CoreIdle   == MoveIdle /\ TilesIdle /\ AnimIdle /\ GameIdle

-----------------------------------------------------------------------------
(* Specification of the movement system: one entity driven by the keyboard *)

\* frames explored
MaxFrames == 4

\* Speed * dt of the entity, in units: 0.5, 3.333 (Speed 200 at 60 TPS) and
\* 20 pixels per frame
SpeedDts == {500, 3333, 20000}

\* starting positions, none overlapping a wall
Starts == { [X |-> 0, Y |-> 0],
            [X |-> 14 * Scale, Y |-> 8 * Scale],
            [X |-> 16 * Scale, Y |-> 8 * Scale],
            [X |-> 24 * Scale, Y |-> 40 * Scale] }

Keys == {-1, 0, 1}

InitMove ==
    /\ pos \in Starts
    /\ state = [IsMoving |-> FALSE, FacingDir |-> [X |-> 0, Y |-> 1]]
    /\ speedDt \in SpeedDts
    /\ mv = NoMove
    /\ frames = 0
    /\ TilesIdle /\ AnimIdle /\ GameIdle /\ ExtIdle

\* one frame of the scene: UserInputSys.Update, then MoveSys.Update
SceneUpdate(directionX, directionY) ==
    /\ frames < MaxFrames
    /\ LET st == UserInputUpdate(state, directionX, directionY)
           r  == MovementUpdate(pos, st, speedDt)
       IN  /\ state' = st
           /\ pos' = r.pos
           /\ mv' = r.mv
    /\ frames' = frames + 1
    /\ UNCHANGED <<speedDt, query, sm, anim, marks, game, scenes, calls>>
    /\ UNCHANGED extVars

NextMove == \E directionX \in Keys, directionY \in Keys : SceneUpdate(directionX, directionY)

SpecMove == InitMove /\ [][NextMove]_vars

-----------------------------------------------------------------------------
(* Specification of MovementSystem.Update on any StateComponent: the fields of
   StateComponent and PositionComponent are exported, so a script may leave
   any direction in FacingDir, the zero vector with IsMoving set included, and
   may place the entity anywhere *)

MaxPlacedFrames == 2

\* coordinates of the placed entity, in units: outside the map on either side,
\* a collisionEpsilon short of a tile edge, on a tile edge, across one, on the
\* next one
PlacedCoords == { -4 * Scale, 16 * Scale - collisionEpsilon, 16 * Scale,
                  24 * Scale, 32 * Scale, 52 * Scale }

\* the values a StateComponent can hold when MoveSys.Update reads it
ScriptedStates ==
    { [IsMoving |-> b, FacingDir |-> [X |-> x, Y |-> y]] :
        b \in BOOLEAN, x \in Keys, y \in Keys }

InitPlaced ==
    /\ pos \in { [X |-> x, Y |-> y] : x \in PlacedCoords, y \in PlacedCoords }
    /\ state = [IsMoving |-> FALSE, FacingDir |-> [X |-> 0, Y |-> 1]]
    /\ speedDt \in SpeedDts
    /\ mv = NoMove
    /\ frames = 0
    /\ TilesIdle /\ AnimIdle /\ GameIdle /\ ExtIdle

\* one frame: a script writes st into the StateComponent, then MoveSys.Update
ScriptedUpdate(st) ==
    /\ frames < MaxPlacedFrames
    /\ LET r == MovementUpdate(pos, st, speedDt)
       IN  /\ state' = st
           /\ pos' = r.pos
           /\ mv' = r.mv
    /\ frames' = frames + 1
    /\ UNCHANGED <<speedDt, query, sm, anim, marks, game, scenes, calls>>
    /\ UNCHANGED extVars

NextPlaced == \E st \in ScriptedStates : ScriptedUpdate(st)

SpecPlaced == InitPlaced /\ [][NextPlaced]_vars

-----------------------------------------------------------------------------
(* Specification of the overlap test: OverlapsTiles on drawn rectangles *)

\* rectangle origins, in quarter tiles around the map
QuerySpan == 6

\* origins every 4 pixels from one tile before the map to one tile after it,
\* on the pixel grid and half a pixel off it
QueryCoords == { c * 4 * Scale + f : c \in (-QuerySpan) .. (4 * MapW + QuerySpan), f \in {0, Scale \div 2} }

\* rectangle sizes: a character, a small sprite, a size off the pixel grid
QuerySizes == { 16 * Scale, 8 * Scale, 12 * Scale + Scale \div 2 }

\* the arguments of the call are drawn, the call is still to be made
InitTiles ==
    /\ MoveIdle /\ AnimIdle /\ GameIdle /\ ExtIdle
    /\ \E x \in QueryCoords, y \in QueryCoords, w \in QuerySizes, h \in QuerySizes,
          layer \in 0 .. (Len(Layers) - 1) :
         query = [called |-> FALSE, x |-> x, y |-> y, w |-> w, h |-> h,
                  layer |-> layer, result |-> FALSE]

\* tm.OverlapsTiles(x, y, w, h, layer) on the drawn arguments
OverlapsQuery ==
    /\ ~query.called
    /\ query' = [query EXCEPT !.called = TRUE,
                              !.result = OverlapsTiles(query.x, query.y, query.w,
                                                       query.h, query.layer)]
    /\ UNCHANGED <<pos, state, speedDt, mv, frames, sm, anim, marks, game, scenes, calls>>
    /\ UNCHANGED extVars

NextTiles == OverlapsQuery

SpecTiles == InitTiles /\ [][NextTiles]_vars

-----------------------------------------------------------------------------
(* Specification of the animation state machine *)

\* AddTransition calls explored
MaxTransitions == 2

Priorities == {8, 10}

\* the StateComponent values Update is called with: standing with no facing
\* and with a facing kept from before, and moving in four directions
StateComponents ==
    { [IsMoving |-> FALSE, FacingDir |-> [X |-> 0, Y |-> 0]],
      [IsMoving |-> FALSE, FacingDir |-> [X |-> -1, Y |-> 1]],
      [IsMoving |-> TRUE,  FacingDir |-> [X |-> -1, Y |-> 1]],
      [IsMoving |-> TRUE,  FacingDir |-> [X |-> 1, Y |-> -1]],
      [IsMoving |-> TRUE,  FacingDir |-> [X |-> 0, Y |-> -1]],
      [IsMoving |-> TRUE,  FacingDir |-> [X |-> 0, Y |-> 1]] }

NumTransitions(m) == Len(m.transitions["idle"]) + Len(m.transitions["walk"])

InitAnim == MoveIdle /\ TilesIdle /\ AnimIdle /\ GameIdle /\ ExtIdle

AddTransition(from, to, condition, priority) ==
    /\ NumTransitions(sm) < MaxTransitions
    /\ sm' = AddTransitionOp(sm, from, to, condition, priority)
    /\ anim' = NoAnim
    /\ UNCHANGED marks
    /\ UNCHANGED <<pos, state, speedDt, mv, frames, query, game, scenes, calls>>
    /\ UNCHANGED extVars

SetDirectional(s, directional) ==
    /\ sm' = SetDirectionalOp(sm, s, directional)
    /\ anim' = NoAnim
    /\ marks' = [marks EXCEPT ![s] =
                    IF ~directional THEN "false"
                    ELSE IF @ \in {"false", "restored"} THEN "restored"
                    ELSE "true"]
    /\ UNCHANGED <<pos, state, speedDt, mv, frames, query, game, scenes, calls>>
    /\ UNCHANGED extVars

\* AnimationStateMachine.Update(state): anim keeps the argument, the state the
\* machine was in, and the two results
Update(st) ==
    /\ LET r == SmUpdate(sm, st)
       IN  /\ sm' = r.sm
           /\ anim' = [called |-> TRUE, arg |-> st, from |-> sm.currentState,
                       state |-> r.state, name |-> r.name]
    /\ UNCHANGED marks
    /\ UNCHANGED <<pos, state, speedDt, mv, frames, query, game, scenes, calls>>
    /\ UNCHANGED extVars

NextAnim ==
    \/ \E from \in AnimStates, to \in AnimStates, condition \in Conds, priority \in Priorities :
           AddTransition(from, to, condition, priority)
    \/ \E s \in AnimStates, directional \in BOOLEAN : SetDirectional(s, directional)
    \/ \E st \in StateComponents : Update(st)

SpecAnim == InitAnim /\ [][NextAnim]_vars

-----------------------------------------------------------------------------
(* Specification of the scene lifecycle *)

\* Game.Update calls explored
MaxTicks == 3

Viewports == { [W |-> 320, H |-> 240], [W |-> 640, H |-> 480] }

\* the state after NewGame(scene, screenW, screenH)
InitGame ==
    /\ MoveIdle /\ TilesIdle /\ AnimIdle /\ ExtIdle
    /\ \E scene \in Scenes, viewport \in Viewports :
         LET r == NewGame([s \in Scenes |-> NewScene], scene, viewport)
         IN  /\ game = r.game
             /\ scenes = r.scenes
             /\ calls = r.calls
    /\ frames = 0

\* Game.Update; ret is what the current scene's Update returns
Tick(ret) ==
    /\ frames < MaxTicks
    /\ LET r == GameUpdate(game, scenes, ret)
       IN  /\ game' = r.game
           /\ scenes' = r.scenes
           /\ calls' = r.calls
    /\ frames' = frames + 1
    /\ UNCHANGED <<pos, state, speedDt, mv, query, sm, anim, marks>>
    /\ UNCHANGED extVars

NextGame == \E ret \in Scenes \cup {Nil} : Tick(ret)

SpecGame == InitGame /\ [][NextGame]_vars

-----------------------------------------------------------------------------
(* Specification of the example scene: scripted entities, frame by frame *)

\* frames explored
MaxSceneFrames == 3

\* what a script asks for in a frame: nothing, right, down, up and left
ScriptDirs == { ZeroDir, [X |-> 1, Y |-> 0], [X |-> 0, Y |-> 1], [X |-> -1, Y |-> -1] }

\* where the entities are created
Spawn == (1 :> [X |-> 0, Y |-> 0]) @@ (2 :> [X |-> 24 * Scale, Y |-> 40 * Scale])

\* the scene after OnEnter: the entities are in the manager; an entity may
\* already be marked dead
InitScene ==
    /\ CoreIdle /\ StoresIdle /\ CamIdle /\ AsysIdle /\ SbIdle
    /\ \E dead \in [EntityIds -> BOOLEAN] :
         scn = [entities |-> [id \in EntityIds |-> NewEntity(Spawn[id], dead[id])],
                log |-> <<>>, frames |-> 0]

\* one frame: ExampleScene.Update(dt), each script reading its own input
SceneFrame(directions) ==
    /\ scn.frames < MaxSceneFrames
    /\ scn.entities # <<>>
    /\ scn' = [ExampleSceneUpdate(scn, directions) EXCEPT !.frames = @ + 1]
    /\ UNCHANGED coreVars
    /\ UNCHANGED <<stores, cam, asys, sb>>

NextScene == \E directions \in [DOMAIN scn.entities -> ScriptDirs] : SceneFrame(directions)

SpecScene == InitScene /\ [][NextScene]_vars

-----------------------------------------------------------------------------
(* Specification of the stores: Attach, Detach, Get and the entity helpers *)

\* Attach and Detach calls on the stores explored
MaxStoreOps == 3

\* the ids of the components of one Attach call
AttachLists == { <<1>>, <<2>>, <<1, 1>>, <<1, 2>> }

\* freshly allocated components with the ids of the list
NewComponents(w, ids) == [i \in DOMAIN ids |-> Component(ids[i], w.n + i)]

\* the scene after it built its stores and systems
InitStores ==
    /\ CoreIdle /\ SceneIdle /\ CamIdle /\ AsysIdle /\ SbIdle
    /\ stores = NewWorld

StoresUnchanged ==
    /\ UNCHANGED coreVars
    /\ UNCHANGED <<scn, cam, asys, sb>>

AttachPosition(ids) ==
    /\ Len(stores.hist) < MaxStoreOps
    /\ stores' = [WorldAttachPosition(stores, NewComponents(stores, ids))
                    EXCEPT !.n = @ + Len(ids), !.got.positions = NoGet]
    /\ StoresUnchanged

\* Detach is given a component of the id, here the stored one when there is one
DetachPosition(id) ==
    /\ Len(stores.hist) < MaxStoreOps
    /\ LET comp == IF id \in DOMAIN stores.positions THEN stores.positions[id]
                   ELSE Component(id, 0)
       IN  stores' = [WorldDetachPosition(stores, <<comp>>) EXCEPT !.got.positions = NoGet]
    /\ StoresUnchanged

AttachState(ids) ==
    /\ Len(stores.hist) < MaxStoreOps
    /\ stores' = [WorldAttachState(stores, NewComponents(stores, ids))
                    EXCEPT !.n = @ + Len(ids), !.got.states = NoGet]
    /\ StoresUnchanged

DetachState(id) ==
    /\ Len(stores.hist) < MaxStoreOps
    /\ LET comp == IF id \in DOMAIN stores.states THEN stores.states[id]
                   ELSE Component(id, 0)
       IN  stores' = [WorldDetachState(stores, <<comp>>) EXCEPT !.got.states = NoGet]
    /\ StoresUnchanged

\* ps.GetPosition(id) and ss.GetState(id); got keeps the call and its outcome
CallGetPosition(id) ==
    /\ stores' = [stores EXCEPT !.got.positions =
                                    [op |-> "GetPosition", id |-> id,
                                     result |-> GetPosition(stores.positions, id)]]
    /\ StoresUnchanged

CallGetState(id) ==
    /\ stores' = [stores EXCEPT !.got.states =
                                    [op |-> "GetState", id |-> id,
                                     result |-> GetState(stores.states, id)]]
    /\ StoresUnchanged

\* the scene creates an entity with its own generator: NewPlayer(es.ids, ...)
CallNewPlayer ==
    /\ Len(stores.hist) < MaxStoreOps
    /\ stores' = [NewPlayer(stores, stores.idGen)
                    EXCEPT !.got = [positions |-> NoGet, states |-> NoGet]]
    /\ StoresUnchanged

CallCreateMovingCharacter ==
    /\ Len(stores.hist) < MaxStoreOps
    /\ stores' = [CreateMovingCharacter(stores, stores.idGen) EXCEPT !.got.positions = NoGet]
    /\ StoresUnchanged

NextStores ==
    \/ \E ids \in AttachLists : AttachPosition(ids)
    \/ \E id \in EntityIds : DetachPosition(id)
    \/ \E ids \in AttachLists : AttachState(ids)
    \/ \E id \in EntityIds : DetachState(id)
    \/ \E id \in EntityIds : CallGetPosition(id)
    \/ \E id \in EntityIds : CallGetState(id)
    \/ CallNewPlayer
    \/ CallCreateMovingCharacter

SpecStores == InitStores /\ [][NextStores]_vars

-----------------------------------------------------------------------------
(* Specification of the camera: CentreOn on a camera of a scene *)

\* positions the camera is centred on: every 60 pixels from before the world
\* to CamSpan * 60 pixels, on the pixel grid and half a pixel off it
CamSpan == 6
CamCoords == { c * 60 * Scale + f : c \in (-1) .. CamSpan, f \in {0, Scale \div 2} }

\* worlds: the 4 x 4 tile map, a map the size of the small screen, a larger map
CamBounds == { [Min |-> [X |-> 0, Y |-> 0], Max |-> [X |-> 64, Y |-> 64]],
               [Min |-> [X |-> 0, Y |-> 0], Max |-> [X |-> 320, Y |-> 240]],
               [Min |-> [X |-> 0, Y |-> 0], Max |-> [X |-> 800, Y |-> 208]] }

\* Zoom 0.5, 1.0 and 2.0
Zooms == {1, 2, 4}

\* the camera after the scene made it and set its Zoom
InitCamera ==
    /\ CoreIdle /\ SceneIdle /\ StoresIdle /\ AsysIdle /\ SbIdle
    /\ \E viewport \in Viewports, bounds \in CamBounds, zoom \in Zooms :
         cam = [c |-> [NewCamera(viewport, bounds) EXCEPT !.Zoom = zoom],
                centred |-> FALSE, target |-> [X |-> 0, Y |-> 0]]

\* RenderSystem.Draw centres the camera on the position of its target
CallCentreOn(p) ==
    /\ cam' = [c |-> CentreOn(cam.c, p), centred |-> TRUE, target |-> p]
    /\ UNCHANGED coreVars
    /\ UNCHANGED <<scn, stores, asys, sb>>

NextCamera == \E x \in CamCoords, y \in CamCoords : CallCentreOn([X |-> x, Y |-> y])

SpecCamera == InitCamera /\ [][NextCamera]_vars

-----------------------------------------------------------------------------
(* Specification of the animation system: two animated entities and a static *)
(* one, updated and drawn frame by frame.  The system is kept twice, a and b: *)
(* the two runs give entity 1 the same StateComponent in every frame and are  *)
(* free in the StateComponent of entity 2 and in the order of the visits.     *)

\* frames explored
MaxAnimFrames == 2

AnimIds == {1, 2}
RenderIds == {1, 2, 3}

DirNames == {"left", "right", "up", "down"}

\* first frame of the row of a direction in the 4 x 4 sheets
RowStart(d) == IF d = "left" THEN 0 ELSE IF d = "right" THEN 4 ELSE IF d = "up" THEN 8 ELSE 12

\* the library of the example scene: idle and walk in four directions, looping
LibFull ==
    [name \in { <<st, "_", d>> : st \in AnimStates, d \in DirNames } |->
        [SpriteSheet |-> name[1], FirstFrame |-> RowStart(name[3]),
         LastFrame |-> RowStart(name[3]) + 3, FrameTime |-> FrameTime, Loop |-> TRUE]]

\* a library in the making: the idle animations, and a walk to the left of one
\* frame that does not loop
LibPartial ==
    [name \in { <<"idle", "_", d>> : d \in DirNames } \cup { <<"walk", "_", "left">> } |->
        IF name[1] = "idle" THEN LibFull[name]
        ELSE [SpriteSheet |-> "walk", FirstFrame |-> 0, LastFrame |-> 0,
              FrameTime |-> FrameTime, Loop |-> FALSE]]

\* the state machine of the example scene, and one whose walk state has no
\* way back
ExampleMachine ==
    AddTransitionOp(AddTransitionOp(NewAnimationStateMachine("idle"),
                                    "idle", "walk", "IsMoving", 10),
                    "walk", "idle", "NotMoving", 10)
OneWayMachine ==
    AddTransitionOp(NewAnimationStateMachine("idle"), "idle", "walk", "IsMoving", 10)

\* NewDefaultStateComponent(id)
NewDefaultStateComponent == [IsMoving |-> FALSE, FacingDir |-> [X |-> 0, Y |-> 1]]

\* the StateComponent values the input system leaves: standing, moving left,
\* moving up
AsysStates == { NewDefaultStateComponent,
                [IsMoving |-> TRUE, FacingDir |-> [X |-> -1, Y |-> 0]],
                [IsMoving |-> TRUE, FacingDir |-> [X |-> 0, Y |-> -1]] }

\* dt of Update in milliseconds
AnimDts == {100}

\* the orders a map of two components can be iterated in
Orders == { <<1, 2>>, <<2, 1>> }

\* pAnim of NewPlayer
NewAnimationComponent ==
    [CurrentAnim |-> <<"idle", "_", "down">>, CurrentFrame |-> 12, ElapsedTime |-> 0,
     Playing |-> TRUE]

\* the system of a scene after its entities were created
SceneAnimationSystem(library, machine) ==
    [NewAnimationSystem([id \in AnimIds |-> NewDefaultStateComponent], library, machine)
        EXCEPT !.components = [id \in AnimIds |-> NewAnimationComponent]]

InitAnimSys ==
    /\ CoreIdle /\ SceneIdle /\ StoresIdle /\ CamIdle /\ SbIdle
    /\ \E library \in {LibFull, LibPartial}, machine \in {ExampleMachine, OneWayMachine},
          hasProvider \in BOOLEAN :
         asys = [a |-> SceneAnimationSystem(library, machine),
                 b |-> SceneAnimationSystem(library, machine),
                 render |-> [id \in RenderIds |-> [EntityId |-> id, Img |-> StaticImage(id)]],
                 hasProvider |-> hasProvider, drawn |-> <<>>, frames |-> 0]

\* the states the input system wrote, then AnimationSystem.Update(dt)
SetStatesAndUpdate(as, st1, st2, order, dt) ==
    AnimationSystemUpdate([as EXCEPT !.states = (1 :> st1) @@ (2 :> st2)], order, dt)

\* one frame of both runs
AnimFrame(st1, st2a, st2b, orderA, orderB, dt) ==
    /\ asys.frames < MaxAnimFrames
    /\ asys' = [asys EXCEPT !.a = SetStatesAndUpdate(@, st1, st2a, orderA, dt),
                            !.b = SetStatesAndUpdate(@, st1, st2b, orderB, dt),
                            !.drawn = <<>>,
                            !.frames = @ + 1]
    /\ UNCHANGED coreVars
    /\ UNCHANGED <<scn, stores, cam, sb>>

\* RenderSystem.Draw on run a: the image chosen for each RenderComponent
CallDraw ==
    /\ asys.drawn = <<>>
    /\ asys' = [asys EXCEPT !.drawn = [id \in RenderIds |->
                                getEntityImage(asys.a, asys.hasProvider, asys.render[id])]]
    /\ UNCHANGED coreVars
    /\ UNCHANGED <<scn, stores, cam, sb>>

NextAnimSys ==
    \/ \E st1 \in AsysStates, st2a \in AsysStates, st2b \in AsysStates,
          orderA \in Orders, orderB \in Orders, dt \in AnimDts :
           AnimFrame(st1, st2a, st2b, orderA, orderB, dt)
    \/ CallDraw

SpecAnimSys == InitAnimSys /\ [][NextAnimSys]_vars

-----------------------------------------------------------------------------
(* Specification of SystemBase: Attach, Detach and Update in any order.  late *)
(* is the set of components attached since the last Update while their id was *)
(* on the remove list; prev is the system and late before the last call.      *)

\* components allocated
MaxSbComps == 3

\* the ids of one Detach call; no component has id 3
DetachLists == { <<1>>, <<2>>, <<1, 2>>, <<3>> }

InitSystemBase ==
    /\ CoreIdle /\ SceneIdle /\ StoresIdle /\ CamIdle /\ AsysIdle
    /\ sb = NoSb

SbAttach(ids) ==
    /\ sb.n + Len(ids) <= MaxSbComps
    /\ LET comps == [i \in DOMAIN ids |-> Component(ids[i], sb.n + i)]
       IN  sb' = [s |-> SystemBaseAttach(sb.s, comps),
                  n |-> sb.n + Len(ids),
                  late |-> sb.late \cup { comps[i] : i \in { j \in DOMAIN comps :
                                                    comps[j].EntityId \in sb.s.remove } },
                  op |-> "Attach",
                  prev |-> [s |-> sb.s, late |-> sb.late]]
    /\ UNCHANGED coreVars
    /\ UNCHANGED <<scn, stores, cam, asys>>

\* a component attached before this Detach of its id is no longer one that was
\* attached after the Detach
SbDetach(ids) ==
    /\ sb' = [sb EXCEPT !.s = SystemBaseDetach(@, ids),
                        !.late = { c \in @ : c.EntityId \notin { ids[i] : i \in DOMAIN ids } },
                        !.op = "Detach",
                        !.prev = [s |-> sb.s, late |-> sb.late]]
    /\ UNCHANGED coreVars
    /\ UNCHANGED <<scn, stores, cam, asys>>

SbUpdate ==
    /\ sb' = [sb EXCEPT !.s = SystemBaseUpdate(@),
                        !.late = {},
                        !.op = "Update",
                        !.prev = [s |-> sb.s, late |-> sb.late]]
    /\ UNCHANGED coreVars
    /\ UNCHANGED <<scn, stores, cam, asys>>

NextSystemBase ==
    \/ \E ids \in AttachLists : SbAttach(ids)
    \/ \E ids \in DetachLists : SbDetach(ids)
    \/ SbUpdate

SpecSystemBase == InitSystemBase /\ [][NextSystemBase]_vars

-----------------------------------------------------------------------------
(* Claims about the movement system, under SpecMove *)

\* C1 (as claimed): when a move from a position inside the map whose rectangle
\* overlaps no wall tile is blocked, the position MovementSystem.Update leaves
\* the entity at overlaps no wall tile either
C1_BlockedMoveEndsClear ==
    (/\ mv.moved /\ (mv.hitX \/ mv.hitY)
     /\ InsideMap(mv.oldX, mv.oldY, EntW, EntH)
     /\ ~TouchesSolid(mv.oldX, mv.oldY, EntW, EntH, collisionLayer))
    => ~(/\ InsideMap(pos.X, pos.Y, EntW, EntH)
         /\ OverlapsTiles(pos.X, pos.Y, EntW, EntH, collisionLayer))

\* C2: the X move is tested at (x + dx, old y) and the Y move at
\* (resolved x, old y + dy), the x that the same Update leaves in the position
C2_YTestUsesResolvedX ==
    mv.moved =>
        /\ mv.hitX = OverlapsTiles(mv.oldX + mv.dx, mv.oldY, EntW, EntH, collisionLayer)
        /\ mv.hitY = OverlapsTiles(pos.X, mv.oldY + mv.dy, EntW, EntH, collisionLayer)

\* C2 witness: an Update whose X was clamped, where the Y test at the pre-move
\* X and at the resolved X give different answers
C2_Witness ==
    /\ mv.moved /\ mv.hitX /\ mv.dy # 0
    /\ pos.X # mv.oldX /\ pos.X # mv.oldX + mv.dx
    /\ OverlapsTiles(mv.oldX, mv.oldY + mv.dy, EntW, EntH, collisionLayer)
       # OverlapsTiles(pos.X, mv.oldY + mv.dy, EntW, EntH, collisionLayer)

\* C3: on a diagonal move a blocked X with a free Y still applies the full dy,
\* and a blocked Y with a free X keeps the full dx
C3_Sliding ==
    (mv.moved /\ mv.dx # 0 /\ mv.dy # 0) =>
        /\ (mv.hitX /\ ~mv.hitY) => pos.Y = mv.oldY + mv.dy
        /\ (mv.hitY /\ ~mv.hitX) => pos.X = mv.oldX + mv.dx

\* C3 witness: a diagonal move whose X was blocked by a wall tile and whose Y
\* went through in full
C3_Witness ==
    /\ mv.moved /\ mv.dx # 0 /\ mv.dy # 0
    /\ mv.hitX /\ ~mv.hitY
    /\ TouchesSolid(mv.oldX + mv.dx, mv.oldY, EntW, EntH, collisionLayer)
    /\ pos.X # mv.oldX + mv.dx
    /\ pos.Y = mv.oldY + mv.dy

\* the StateComponent the last Update read asks for no movement
NotMoving == ~state.IsMoving \/ state.FacingDir = ZeroDir

\* C21: MovementSystem.Update leaves the position of an entity as it was when
\* the entity is not moving (IsMoving false, or a zero direction vector),
\* wherever its rectangle is: next to a tile, overlapping one, outside the map
C21_StillEntityStaysPut ==
    (frames > 0 /\ NotMoving) =>
        /\ pos.X = mv.oldX /\ pos.Y = mv.oldY
        /\ mv.dx = 0 /\ mv.dy = 0

\* C21 witness: an Update that read IsMoving set with a zero direction, on an
\* entity whose rectangle overlaps a wall tile, so that OverlapsTiles answered
\* TRUE on both axes
C21_Witness ==
    /\ frames > 0
    /\ state.IsMoving /\ state.FacingDir = ZeroDir
    /\ mv.moved /\ mv.hitX /\ mv.hitY
    /\ TouchesSolid(pos.X, pos.Y, EntW, EntH, collisionLayer)

\* the last Update clamped the entity on X and left Y as it was, and this
\* Update pushes it the same way on X and leaves Y as it is
PushedAgainOnX ==
    /\ mv.moved /\ mv.hitX /\ pos.Y = mv.oldY
    /\ mv'.moved /\ mv'.dx # 0 /\ Sgn(mv'.dx) = Sgn(mv.dx)
    /\ pos'.Y = pos.Y
PushedAgainOnY ==
    /\ mv.moved /\ mv.hitY /\ pos.X = mv.oldX
    /\ mv'.moved /\ mv'.dy # 0 /\ Sgn(mv'.dy) = Sgn(mv.dy)
    /\ pos'.X = pos.X

\* C15, for an entity inside the map and a per-frame displacement below one
\* tile: once an Update has clamped the entity against a wall on an axis, an
\* Update that pushes it the same way on that axis leaves the coordinate on
\* that axis where it was
C15_NoOscillation ==
    [][ (speedDt < TileW /\ InsideMap(pos.X, pos.Y, EntW, EntH)) =>
            /\ PushedAgainOnX => pos'.X = pos.X
            /\ PushedAgainOnY => pos'.Y = pos.Y ]_vars

-----------------------------------------------------------------------------
(* Claims about the overlap test, under SpecTiles *)

\* C7 (as claimed): for a rectangle inside the map OverlapsTiles is true exactly
\* when the rectangle intersects a non-zero tile of the layer
C7_OverlapIffIntersects ==
    (query.called /\ InsideMap(query.x, query.y, query.w, query.h)) =>
        (query.result <=> TouchesSolid(query.x, query.y, query.w, query.h, query.layer))

\* C8 (as claimed): OverlapsTiles is true for every rectangle a part of which
\* lies outside the map
C8_OutsideCollides ==
    (query.called /\ PartlyOutside(query.x, query.y, query.w, query.h)) => query.result

-----------------------------------------------------------------------------
(* Claims about the animation state machine, under SpecAnim *)

\* the transitions from the state Update was called in that hold of its argument
Satisfied == { i \in 1 .. Len(sm.transitions[anim.from]) :
                 Holds(sm.transitions[anim.from][i].condition, anim.arg) }

\* the satisfied transitions of the highest priority
TopSatisfied == { i \in Satisfied :
                    \A j \in Satisfied : sm.transitions[anim.from][j].priority
                                         <= sm.transitions[anim.from][i].priority }

\* C4: Update moves to the target of the first added among the satisfied
\* transitions of highest priority registered from the current state, and
\* stays in the current state when none is satisfied
C4_HighestPriorityFirstAdded ==
    anim.called =>
        /\ sm.currentState = anim.state
        /\ Satisfied = {} => anim.state = anim.from
        /\ Satisfied # {} =>
             \E i \in TopSatisfied :
                 /\ \A j \in TopSatisfied : i <= j
                 /\ anim.state = sm.transitions[anim.from][i].to

\* C4 witness: two satisfied transitions of the same highest priority to
\* different targets, and Update took the one added first
C4_Witness ==
    /\ anim.called
    /\ \E i \in TopSatisfied, j \in TopSatisfied :
         /\ i < j
         /\ sm.transitions[anim.from][i].to # sm.transitions[anim.from][j].to
         /\ anim.state = sm.transitions[anim.from][i].to

\* C5: for a directional state the name is state_dir with the state after the
\* transition and dir left / right by the sign of X, else up / down by the
\* sign of Y, and down for the zero vector
C5_DirectionalName ==
    (anim.called /\ marks[anim.state] # "false") =>
        /\ Len(anim.name) = 3
        /\ anim.name[1] = sm.currentState
        /\ anim.name[2] = "_"
        /\ anim.arg.FacingDir.X < 0 => anim.name[3] = "left"
        /\ anim.arg.FacingDir.X > 0 => anim.name[3] = "right"
        /\ (anim.arg.FacingDir.X = 0 /\ anim.arg.FacingDir.Y < 0) => anim.name[3] = "up"
        /\ (anim.arg.FacingDir.X = 0 /\ anim.arg.FacingDir.Y > 0) => anim.name[3] = "down"
        /\ (anim.arg.FacingDir.X = 0 /\ anim.arg.FacingDir.Y = 0) => anim.name[3] = "down"

\* C5 witness: Update changed state with a facing whose X and Y are both
\* non-zero, and the name carries the new state and the X direction
C5_Witness ==
    /\ anim.called /\ anim.from # anim.state
    /\ anim.arg.FacingDir.X < 0 /\ anim.arg.FacingDir.Y > 0
    /\ anim.name = <<anim.state, "_", "left">>

\* C6: Update returns the bare state name exactly for a state whose last
\* SetDirectional call was with false; a state never marked, marked true, or
\* marked true again after false gets the direction suffix
C6_DirectionalByDefault ==
    anim.called =>
        /\ marks[anim.state] = "false" => anim.name = <<anim.state>>
        /\ marks[anim.state] # "false" => (Len(anim.name) = 3 /\ anim.name[1] = anim.state)

\* C6 witness: a state marked false and later true again, with the suffix back
C6_Witness ==
    /\ anim.called
    /\ marks[anim.state] = "restored"
    /\ Len(anim.name) = 3

-----------------------------------------------------------------------------
(* Claims about the scene lifecycle, under SpecGame *)

\* C9: when the current scene's Update returns a scene, Game.Update calls
\* OnExit on the old scene while it is current, then the returned scene is
\* current when its OnEnter is called; when Update returns nil the scene stays
\* and no hook is called
C9_SceneSwitchOrder ==
    frames > 0 =>
        /\ calls[1].hook = "Update" /\ calls[1].scene = calls[1].curr
        /\ calls[1].ret # Nil =>
             /\ Len(calls) = 3
             /\ calls[2] = Call("OnExit", calls[1].scene, calls[1].scene, Nil)
             /\ calls[3] = Call("OnEnter", calls[1].ret, calls[1].ret, Nil)
             /\ game.curr = calls[1].ret
        /\ calls[1].ret = Nil =>
             /\ Len(calls) = 1
             /\ game.curr = calls[1].scene

\* C9 witness: a Game.Update that switched to another scene
C9_Witness ==
    /\ frames > 0
    /\ calls[1].ret # Nil /\ calls[1].ret # calls[1].scene
    /\ game.curr = calls[1].ret
    /\ scenes[game.curr].entered = 1

\* C10 (as claimed): every scene the engine has entered held the game's
\* viewport, given by SetViewport, when its OnEnter ran
C10_ViewportBeforeEnter ==
    \A s \in Scenes : scenes[s].entered = 1 => scenes[s].camera = game.viewport

-----------------------------------------------------------------------------
(* Claims about the example scene, under SpecScene *)

ScriptSteps == { i \in DOMAIN scn.log : scn.log[i].op = "script" }
MoveSteps   == { j \in DOMAIN scn.log : scn.log[j].op = "move" }

\* C11: within one frame every script step comes before every movement step,
\* every entity the movement system processes had its script run in that
\* frame, and the direction the movement system uses for it is the one its
\* script set in that frame
C11_ScriptsBeforeMovement ==
    /\ \A i \in ScriptSteps, j \in MoveSteps : i < j
    /\ \A j \in MoveSteps :
         \E i \in ScriptSteps : /\ scn.log[i].id = scn.log[j].id
                                /\ scn.log[i].dir = scn.log[j].dir

\* a second or later frame in which both entities were moved by the movement
\* system, one to the right and one up and left
C11_Witness ==
    /\ scn.frames >= 2
    /\ Cardinality(MoveSteps) = 2
    /\ \E j \in MoveSteps : scn.log[j].dir = [X |-> 1, Y |-> 0]
    /\ \E j \in MoveSteps : scn.log[j].dir = [X |-> -1, Y |-> -1]

-----------------------------------------------------------------------------
(* Claims about the stores, under SpecStores *)

\* the Attach and Detach calls made so far on a store for the id of its last Get
StoreNames == {"positions", "states"}
CallsOnGot(store) == { i \in DOMAIN stores.hist : /\ stores.hist[i].store = store
                                                  /\ stores.hist[i].id = stores.got[store].id }
LastCallOnGot(store) ==
    stores.hist[CHOOSE i \in CallsOnGot(store) : \A j \in CallsOnGot(store) : j <= i]

\* C12: GetPosition and GetState return the component most recently attached
\* for the id when the last Attach or Detach call for that id on the store was
\* an Attach, and panic when there was no such call or it was a Detach
C12_GetLatestOrPanic ==
    \A store \in StoreNames :
        stores.got[store].op # "none" =>
            IF CallsOnGot(store) # {} /\ LastCallOnGot(store).op = "Attach"
            THEN /\ ~stores.got[store].result.panic
                 /\ stores.got[store].result.comp = LastCallOnGot(store).comp
            ELSE stores.got[store].result.panic

\* one store was read for an id attached twice, the other for an id attached
\* and then detached
C12_Witness ==
    \E s1 \in StoreNames, s2 \in StoreNames :
        /\ s1 # s2
        /\ stores.got[s1].op # "none" /\ stores.got[s2].op # "none"
        /\ CallsOnGot(s1) # {} /\ CallsOnGot(s2) # {}
        /\ LastCallOnGot(s1).op = "Attach"
        /\ \E i \in CallsOnGot(s1) : /\ stores.hist[i].op = "Attach"
                                     /\ stores.hist[i].comp # LastCallOnGot(s1).comp
        /\ LastCallOnGot(s2).op = "Detach"
        /\ \E i \in CallsOnGot(s2) : stores.hist[i].op = "Attach"

\* C17: every entity created through NewPlayer or CreateMovingCharacter with
\* the scene's IdGen gets an id distinct from the ids of the entities created
\* before it
C17_HelperIdsDistinct ==
    \A i \in DOMAIN stores.created, j \in DOMAIN stores.created :
        i < j => stores.created[i] # stores.created[j]

-----------------------------------------------------------------------------
(* Claims about the camera, under SpecCamera *)

VisibleInsideX == /\ cam.c.bounds.Min.X * Scale <= cam.c.X
                  /\ cam.c.X + ViewW(cam.c) <= cam.c.bounds.Max.X * Scale
VisibleInsideY == /\ cam.c.bounds.Min.Y * Scale <= cam.c.Y
                  /\ cam.c.Y + ViewH(cam.c) <= cam.c.bounds.Max.Y * Scale
WorldHoldsViewX == ViewW(cam.c) <= (cam.c.bounds.Max.X - cam.c.bounds.Min.X) * Scale
WorldHoldsViewY == ViewH(cam.c) <= (cam.c.bounds.Max.Y - cam.c.bounds.Min.Y) * Scale

-----------------------------------------------------------------------------
(* Claims about the animation system and the drawn image, under SpecAnimSys *)

\* the entity has an animation component that is playing an animation of the
\* library, and the render system has a provider to ask
HasFrame(id) ==
    /\ asys.hasProvider
    /\ id \in DOMAIN asys.a.components
    /\ asys.a.components[id].Playing
    /\ asys.a.components[id].CurrentAnim \in DOMAIN asys.a.library

\* C14: an entity is drawn with the current frame of its current animation
\* when it has an animation component that is playing an animation of the
\* library, and with the static image of its RenderComponent when it has no
\* animation component, its animation is missing, or it is not playing
C14_FrameOrFallback ==
    asys.drawn # <<>> =>
        \A id \in RenderIds :
            asys.drawn[id] =
                IF HasFrame(id)
                THEN <<"sheet", asys.a.library[asys.a.components[id].CurrentAnim].SpriteSheet,
                       asys.a.components[id].CurrentFrame>>
                ELSE asys.render[id].Img

\* a Draw in which entity 1 got a frame of the sheet, entity 2 the static image
\* because its animation had stopped, and entity 3 the static image because it
\* has no animation component
C14_Witness ==
    /\ asys.drawn # <<>>
    /\ asys.hasProvider
    /\ asys.drawn[1][1] = "sheet"
    /\ ~asys.a.components[2].Playing
    /\ asys.a.components[2].CurrentAnim \in DOMAIN asys.a.library
    /\ asys.drawn[2] = StaticImage(2)
    /\ asys.drawn[3] = StaticImage(3)

\* C16: the animation chosen for entity 1 depends only on its own
\* StateComponent history: two runs that differ only in the states of entity 2
\* and in the order of the visits choose the same animation for entity 1
C16_OwnHistoryDecides ==
    asys.a.components[1].CurrentAnim = asys.b.components[1].CurrentAnim

-----------------------------------------------------------------------------
(* Claims about SystemBase, under SpecSystemBase *)

\* the positions in comps of the first component of each id of ids
FirstOf(comps, ids) ==
    { i \in DOMAIN comps : /\ comps[i].EntityId \in ids
                           /\ \A j \in 1 .. (i - 1) : comps[j].EntityId # comps[i].EntityId }

\* comps without the positions of drop, in the same order
RECURSIVE Without(_, _, _)
Without(comps, drop, i) ==
    IF i > Len(comps) THEN <<>>
    ELSE (IF i \in drop THEN <<>> ELSE <<comps[i]>>) \o Without(comps, drop, i + 1)

\* C18: Detach leaves the component list unchanged; the next Update removes
\* the component of each detached id (the first in the list with that id),
\* keeps all the other components in their order, and leaves the remove set
\* empty, also when a detached id matched no component
C18_DetachDeferred ==
    /\ sb.op = "Detach" => sb.s.components = sb.prev.s.components
    /\ sb.op = "Update" =>
          /\ sb.s.components =
                Without(sb.prev.s.components,
                        FirstOf(sb.prev.s.components, sb.prev.s.remove), 1)
          /\ sb.s.remove = {}

\* an Update that removed a component from between two that stayed, with a
\* detached id on the list that matched no component
C18_Witness ==
    /\ sb.op = "Update"
    /\ Len(sb.prev.s.components) = 3
    /\ sb.s.components = <<sb.prev.s.components[1], sb.prev.s.components[3]>>
    /\ \E id \in sb.prev.s.remove :
         \A i \in DOMAIN sb.prev.s.components : sb.prev.s.components[i].EntityId # id

\* C19: after Detach(id) followed by Update, no component with that id remains
\* in the list, whatever was attached before the Detach
C19_DetachedIdGone ==
    sb.op = "Update" =>
        \A id \in sb.prev.s.remove :
            (\A c \in sb.prev.late : c.EntityId # id) =>
                \A i \in DOMAIN sb.s.components : sb.s.components[i].EntityId # id

\* C20: a component attached after Detach was called for its id and before
\* the next Update is in the list after that Update
C20_LateAttachSurvives ==
    sb.op = "Update" =>
        \A c \in sb.prev.late : \E i \in DOMAIN sb.s.components : sb.s.components[i] = c

====
